---- MODULE Spec2Model ----
(***************************************************************************)
(* cli/utils/yt-playlist.py: fetch_playlist_links and main.                *)
(*                                                                         *)
(* A path is the sequence of its components ('' is <<>>), a URL a sequence *)
(* of characters, and a file's content the sequence of the characters in   *)
(* it.  Every f.write is one write of the whole line at the file object's  *)
(* own offset.  The playlist URL is only handed to pytube, so its value is *)
(* not kept; what pytube answers is chosen when playlist.video_urls is     *)
(* read; lines 14 and 15 read the same list again.                         *)
(***************************************************************************)
EXTENDS Integers, Sequences, FiniteSets, TLC

VARIABLES dirs, files, proc, prevLen, interfered

vars == <<dirs, files, proc, prevLen, interfered>>

\* ------------------------------------------------------------------ bounds
MaxLinks == 3

\* ------------------------------------------------------- processes, inputs
Procs    == {1, 2}
SeqProcs == {1}

NL  == "\n"
NUL == "\\0"

Urls == {<<"a">>, <<"b", "c">>}

RECURSIVE SeqsUpTo(_, _)
SeqsUpTo(S, n) ==
    IF n = 0 THEN {<<>>}
    ELSE LET shorter == SeqsUpTo(S, n - 1)
         IN  shorter \cup {Append(l, u) : l \in {s \in shorter : Len(s) = n - 1}, u \in S}

Lists == SeqsUpTo(Urls, MaxLinks)

EmptyPath   == <<>>
DefaultPath == <<"YTplaylist_links.txt">>
NestedPath  == <<"out", "sub", "links.txt">>
Dot         == <<".">>

\* what a caller passes as output_file: <<>> when omitted, else <<path>>
DirectArgs == {<<>>, <<EmptyPath>>, <<NestedPath>>}
\* what the user types at the second prompt
Answers    == {EmptyPath, NestedPath}

\* ------------------------------------------------------------ pure helpers
\* src line 4: the parameter's default
BindOutputFile(arg) == IF arg = <<>> THEN DefaultPath ELSE arg[1]

\* src line 23: input(...) or 'YTplaylist_links.txt'
AnswerOrDefault(ans) == IF ans = EmptyPath THEN DefaultPath ELSE ans

\* os.path.dirname
Dirname(path) == IF Len(path) <= 1 THEN <<>> ELSE SubSeq(path, 1, Len(path) - 1)

\* src line 8: os.path.dirname(output_file) or '.'
DirArg(path) == IF Dirname(path) = <<>> THEN Dot ELSE Dirname(path)

\* the directories os.makedirs creates for d: d and its missing ancestors
Chain(d) == IF d = Dot THEN {Dot} ELSE {SubSeq(d, 1, k) : k \in 1..Len(d)}

\* src line 8: exist_ok=True
ExistOkFalse == FALSE
ExistOk == TRUE

\* the exception os.makedirs raises by itself, "" when none
MakedirsError(d, ds) ==
    IF d = <<>> THEN "FileNotFoundError"
    ELSE IF d \in ds /\ ~ExistOk THEN "FileExistsError"
    ELSE ""

\* the exception open(path, 'w') raises by itself, "" when none
OpenError(path, ds) ==
    IF path = EmptyPath THEN "FileNotFoundError"
    ELSE IF DirArg(path) \notin ds THEN "FileNotFoundError"
    ELSE ""

\* src line 10: mode 'w' truncates
KeepContent(old) == old
Truncate(old) == <<>>

\* src line 12: f"{video_url}\n"
LineNoNewline(video_url) == video_url
LineOf(video_url) == Append(video_url, NL)

Max(a, b) == IF a >= b THEN a ELSE b

\* a write of data at offset pos: a gap past the end of the file reads as NUL
WriteAtStart(content, pos, data) ==
    [i \in 1..Max(Len(content), Len(data)) |->
        IF i <= Len(data) THEN data[i] ELSE content[i]]
WriteAt(content, pos, data) ==
    [i \in 1..Max(Len(content), pos + Len(data)) |->
        IF i > pos /\ i <= pos + Len(data) THEN data[i - pos]
        ELSE IF i <= Len(content) THEN content[i]
        ELSE NUL]

\* src line 17: except Exception
ExceptionClasses == {"ResolveError", "PermissionError", "OSError",
                     "FileNotFoundError", "FileExistsError", "EOFError"}
CaughtOSErrorOnly(e) ==
    e \in {"PermissionError", "OSError", "FileNotFoundError", "FileExistsError"}
Caught(e) == e \in ExceptionClasses

\* src line 15: return len(playlist.video_urls)
LenMinusOne(urls) == Len(urls) - 1
SuccessReturn(urls) == Len(urls)

\* src line 14 and 18: the two outcome messages
SuccessMsg(n) == [kind |-> "Successfully extracted", n |-> n, e |-> ""]
ErrorMsg(e)   == [kind |-> "An error occurred", n |-> 0, e |-> e]

\* the file content that holds exactly the lines of urls
RECURSIVE Render(_)
Render(urls) ==
    IF urls = <<>> THEN <<>>
    ELSE Append(Head(urls), NL) \o Render(Tail(urls))

\* -------------------------------------------------------------------- state
Idle == [pc |-> "idle", caller |-> "none", given |-> <<>>, output_file |-> <<>>,
         video_urls |-> <<>>, idx |-> 0, f |-> "none", pos |-> 0,
         exc |-> "", ret |-> <<>>, stdout |-> <<>>]

Init ==
    /\ dirs = {Dot}
    /\ files = <<>>
    /\ proc = [p \in Procs |-> Idle]
    /\ prevLen = [p \in Procs |-> 0]
    /\ interfered = [p \in Procs |-> FALSE]

Resting(p) == proc[p].pc \in {"idle", "returned", "propagated", "exit0", "traceback"}

Set(p, r) == proc' = [proc EXCEPT ![p] = r]

HoldsOpen(q, path) == proc[q].f = "open" /\ proc[q].output_file = path

\* an exception raised at src lines 6-15: caught at line 17, or it leaves the function
Raise(p, e, fstate) ==
    Set(p, [proc[p] EXCEPT !.exc = e, !.f = fstate,
              !.pc = IF Caught(e) THEN "L18"
                     ELSE IF proc[p].caller = "main" THEN "traceback"
                     ELSE "propagated"])

Return(p, v) ==
    Set(p, [proc[p] EXCEPT !.ret = <<v>>,
              !.pc = IF proc[p].caller = "main" THEN "exit0" ELSE "returned"])

\* ------------------------------------------------------------------ actions
\* a caller's fetch_playlist_links(url) or fetch_playlist_links(url, path)
CallDirect(p, arg) ==
    /\ Resting(p)
    /\ Set(p, [Idle EXCEPT !.pc = "L6", !.caller = "direct", !.given = arg,
                 !.output_file = BindOutputFile(arg)])
    /\ prevLen' = [prevLen EXCEPT ![p] =
                     IF BindOutputFile(arg) \in DOMAIN files
                     THEN Len(files[BindOutputFile(arg)]) ELSE 0]
    /\ interfered' = [interfered EXCEPT ![p] = FALSE]
    /\ UNCHANGED <<dirs, files>>

\* python yt-playlist.py
RunMain(p) ==
    /\ Resting(p)
    /\ Set(p, [Idle EXCEPT !.pc = "M22", !.caller = "main"])
    /\ prevLen' = [prevLen EXCEPT ![p] = 0]
    /\ interfered' = [interfered EXCEPT ![p] = FALSE]
    /\ UNCHANGED <<dirs, files>>

\* src line 22: playlist_url = input(...)
InputUrl(p) ==
    /\ proc[p].pc = "M22"
    /\ \/ Set(p, [proc[p] EXCEPT !.pc = "M23"])
       \/ Set(p, [proc[p] EXCEPT !.pc = "traceback", !.exc = "EOFError"])
    /\ UNCHANGED <<dirs, files, prevLen, interfered>>

\* src line 23: output_file = input(...) or 'YTplaylist_links.txt'
InputFile(p) ==
    /\ proc[p].pc = "M23"
    /\ \/ \E ans \in Answers :
            Set(p, [proc[p] EXCEPT !.pc = "M24", !.given = <<ans>>,
                      !.output_file = AnswerOrDefault(ans)])
       \/ Set(p, [proc[p] EXCEPT !.pc = "traceback", !.exc = "EOFError"])
    /\ UNCHANGED <<dirs, files, prevLen, interfered>>

\* src line 24: fetch_playlist_links(playlist_url, output_file)
MainCall(p) ==
    /\ proc[p].pc = "M24"
    /\ Set(p, [proc[p] EXCEPT !.pc = "L6"])
    /\ prevLen' = [prevLen EXCEPT ![p] =
                     IF proc[p].output_file \in DOMAIN files
                     THEN Len(files[proc[p].output_file]) ELSE 0]
    /\ UNCHANGED <<dirs, files, interfered>>

\* src line 6: playlist = Playlist(playlist_url)
NewPlaylist(p) ==
    /\ proc[p].pc = "L6"
    /\ \/ Set(p, [proc[p] EXCEPT !.pc = "L8"])
       \/ Raise(p, "ResolveError", "none")
    /\ UNCHANGED <<dirs, files, prevLen, interfered>>

\* src line 8: os.makedirs(os.path.dirname(output_file) or '.', exist_ok=True)
Makedirs(p) ==
    /\ proc[p].pc = "L8"
    /\ LET d == DirArg(proc[p].output_file)
           e == MakedirsError(d, dirs)
       IN  \/ /\ e = ""
              /\ dirs' = dirs \cup Chain(d)
              /\ Set(p, [proc[p] EXCEPT !.pc = "L10"])
           \/ /\ e # ""
              /\ Raise(p, e, "none")
              /\ UNCHANGED dirs
           \/ /\ e = ""
              /\ d \notin dirs
              /\ Raise(p, "PermissionError", "none")
              /\ UNCHANGED dirs
    /\ UNCHANGED <<files, prevLen, interfered>>

\* src line 10: with open(output_file, 'w', encoding='utf-8') as f
Open(p) ==
    /\ proc[p].pc = "L10"
    /\ LET path == proc[p].output_file
           e    == OpenError(path, dirs)
       IN  \/ /\ e = ""
              /\ files' = [q \in DOMAIN files \cup {path} |->
                             IF q = path
                             THEN (IF path \in DOMAIN files
                                   THEN Truncate(files[path]) ELSE <<>>)
                             ELSE files[q]]
              /\ Set(p, [proc[p] EXCEPT !.pc = "L11", !.f = "open", !.pos = 0])
              /\ interfered' = [q \in Procs |->
                    IF q = p THEN \E o \in Procs \ {p} : HoldsOpen(o, path)
                    ELSE interfered[q] \/ proc[q].output_file = path]
           \/ /\ e # ""
              /\ Raise(p, e, "none")
              /\ UNCHANGED <<files, interfered>>
           \/ /\ e = ""
              /\ Raise(p, "PermissionError", "none")
              /\ UNCHANGED <<files, interfered>>
    /\ UNCHANGED <<dirs, prevLen>>

\* src line 11: playlist.video_urls, read for the first time
GetVideoUrls(p, lists) ==
    /\ proc[p].pc = "L11"
    /\ \/ \E l \in lists : Set(p, [proc[p] EXCEPT !.pc = "L12", !.video_urls = <<l>>])
       \/ Raise(p, "ResolveError", "closed")
    /\ UNCHANGED <<dirs, files, prevLen, interfered>>

\* src lines 11-12: the next video_url, and f.write(f"{video_url}\n")
WriteLine(p) ==
    /\ proc[p].pc = "L12"
    /\ proc[p].idx < Len(proc[p].video_urls[1])
    /\ LET path == proc[p].output_file
           data == LineOf(proc[p].video_urls[1][proc[p].idx + 1])
       IN  \/ /\ files' = [files EXCEPT ![path] = WriteAt(@, proc[p].pos, data)]
              /\ Set(p, [proc[p] EXCEPT !.idx = @ + 1, !.pos = @ + Len(data)])
           \/ /\ Raise(p, "OSError", "closed")
              /\ UNCHANGED files
    /\ UNCHANGED <<dirs, prevLen, interfered>>

\* src lines 11-13: the list is exhausted, the with block closes the file
EndWith(p) ==
    /\ proc[p].pc = "L12"
    /\ proc[p].idx = Len(proc[p].video_urls[1])
    /\ Set(p, [proc[p] EXCEPT !.pc = "L14", !.f = "closed"])
    /\ UNCHANGED <<dirs, files, prevLen, interfered>>

\* src line 14: print(f"Successfully extracted {len(playlist.video_urls)} video links.")
PrintSuccess(p) ==
    /\ proc[p].pc = "L14"
    /\ Set(p, [proc[p] EXCEPT !.pc = "L15",
                 !.stdout = Append(@, SuccessMsg(Len(proc[p].video_urls[1])))])
    /\ UNCHANGED <<dirs, files, prevLen, interfered>>

\* src line 15: return len(playlist.video_urls)
ReturnLen(p) ==
    /\ proc[p].pc = "L15"
    /\ Return(p, SuccessReturn(proc[p].video_urls[1]))
    /\ UNCHANGED <<dirs, files, prevLen, interfered>>

\* src line 18: print(f"An error occurred: {e}")
PrintError(p) ==
    /\ proc[p].pc = "L18"
    /\ Set(p, [proc[p] EXCEPT !.pc = "L19", !.stdout = Append(@, ErrorMsg(proc[p].exc))])
    /\ UNCHANGED <<dirs, files, prevLen, interfered>>

\* src line 19: return 0
ReturnZero(p) ==
    /\ proc[p].pc = "L19"
    /\ Return(p, 0)
    /\ UNCHANGED <<dirs, files, prevLen, interfered>>

\* one export at a time: calls and runs of the program, one after the other
Next ==
    \E p \in SeqProcs :
        \/ \E arg \in DirectArgs : CallDirect(p, arg)
        \/ RunMain(p)
        \/ InputUrl(p)
        \/ InputFile(p)
        \/ MainCall(p)
        \/ NewPlaylist(p)
        \/ Makedirs(p)
        \/ Open(p)
        \/ GetVideoUrls(p, Lists)
        \/ WriteLine(p)
        \/ EndWith(p)
        \/ PrintSuccess(p)
        \/ ReturnLen(p)
        \/ PrintError(p)
        \/ ReturnZero(p)

Spec == Init /\ [][Next]_vars

\* two exports, each called once with the default output file, their steps interleaved
ConcCall(p) ==
    /\ proc[p].pc = "idle"
    /\ CallDirect(p, <<>>)

NextConc ==
    \E p \in Procs :
        \/ ConcCall(p)
        \/ NewPlaylist(p)
        \/ Makedirs(p)
        \/ Open(p)
        \/ GetVideoUrls(p, Lists)
        \/ WriteLine(p)
        \/ EndWith(p)
        \/ PrintSuccess(p)
        \/ ReturnLen(p)
        \/ PrintError(p)
        \/ ReturnZero(p)

SpecConc == Init /\ [][NextConc]_vars

\* ------------------------------------------------------------------- claims
Ended(p)   == proc[p].pc \in {"returned", "exit0"}
Links(p)   == proc[p].video_urls[1]
Target(p)  == proc[p].output_file
EnvFaults  == {"ResolveError", "PermissionError", "OSError"}

\* C1: a call that ends without any failure returns the number N of URLs the
\* service returned, and the output file then holds exactly those N URLs, in
\* order, each followed by one newline (an empty file for N = 0).
C1_ExactLines ==
    \A p \in SeqProcs :
        (Ended(p) /\ proc[p].exc = "") =>
            /\ proc[p].video_urls # <<>>
            /\ proc[p].ret = <<Len(Links(p))>>
            /\ Target(p) \in DOMAIN files
            /\ files[Target(p)] = Render(Links(p))

\* a successful call whose list holds the same URL twice
C1_Witness ==
    \E p \in SeqProcs :
        /\ Ended(p) /\ proc[p].exc = ""
        /\ Len(Links(p)) >= 2
        /\ Links(p)[1] = Links(p)[2]
        /\ files[Target(p)] = Render(Links(p))

\* C2: a failure of resolution, makedirs, open or a write never leaves the
\* function: the handler prints the diagnostic and the call returns 0.
C2_FailureCaught ==
    \A p \in SeqProcs :
        (proc[p].exc # "" /\ proc[p].exc # "EOFError") =>
            /\ proc[p].pc \in {"L18", "L19", "returned", "exit0"}
            /\ proc[p].pc # "L18" => proc[p].stdout = <<ErrorMsg(proc[p].exc)>>
            /\ Ended(p) => proc[p].ret = <<0>>

\* a call that returned after playlist.video_urls raised
C2_Witness ==
    \E p \in SeqProcs :
        /\ proc[p].pc = "returned"
        /\ proc[p].exc = "ResolveError"
        /\ proc[p].f = "closed"
        /\ proc[p].ret = <<0>>

\* C3: after a successful call the file holds the lines of that call only:
\* nothing of the content the file had before is kept, neither in front of
\* the new lines nor behind them.
C3_Replaced ==
    \A p \in SeqProcs :
        (Ended(p) /\ proc[p].exc = "" /\ prevLen[p] > 0) =>
            /\ Len(files[Target(p)]) = Len(Render(Links(p)))
            /\ \A i \in 1..Len(files[Target(p)]) :
                   files[Target(p)][i] = Render(Links(p))[i]

\* a successful call with a non-empty list, shorter than what the file held
C3_Witness ==
    \E p \in SeqProcs :
        /\ Ended(p) /\ proc[p].exc = ""
        /\ Links(p) # <<>>
        /\ prevLen[p] > Len(files[Target(p)])

\* C5: the value returned is 0 exactly when a failure was caught or the
\* resolved list is empty; otherwise it is strictly positive.
C5_ZeroIff ==
    \A p \in SeqProcs :
        Ended(p) =>
            /\ (proc[p].ret = <<0>>) <=> (proc[p].exc # "" \/ proc[p].video_urls = << <<>> >>)
            /\ proc[p].ret[1] >= 0

\* a call that returned 0 although nothing failed: the list was empty
C5_Witness ==
    \E p \in SeqProcs :
        /\ Ended(p) /\ proc[p].exc = ""
        /\ proc[p].video_urls = << <<>> >>
        /\ proc[p].ret = <<0>>

\* C6: before the file is opened the directory of the output path and all its
\* ancestors exist, an existing directory is never an error, and opening a
\* file under it never fails for a missing directory.
C6_DirsBeforeOpen ==
    \A p \in SeqProcs :
        /\ (proc[p].pc = "L10" \/ proc[p].f # "none") =>
               Chain(DirArg(Target(p))) \subseteq dirs
        /\ proc[p].exc # "FileExistsError"
        /\ proc[p].exc = "FileNotFoundError" => Target(p) = EmptyPath

\* a successful call to the nested path whose file, so its directory, existed before
C6_Witness ==
    \E p \in SeqProcs :
        /\ Ended(p) /\ proc[p].exc = ""
        /\ Target(p) = NestedPath
        /\ prevLen[p] > 0
        /\ Chain(Dirname(NestedPath)) \subseteq dirs

\* C10: from the open on, the file holds the lines written so far, a prefix
\* of the resolved list; a call that fails in a write returns 0 with a proper
\* prefix left in the file.
C10_Prefix ==
    \A p \in SeqProcs :
        proc[p].f # "none" =>
            /\ Target(p) \in DOMAIN files
            /\ files[Target(p)] =
                 IF proc[p].video_urls = <<>> THEN <<>>
                 ELSE Render(SubSeq(Links(p), 1, proc[p].idx))
            /\ (Ended(p) /\ proc[p].exc = "OSError") =>
                   /\ proc[p].ret = <<0>>
                   /\ proc[p].idx < Len(Links(p))

\* a call that failed in its second write, over a file that held more before
C10_Witness ==
    \E p \in SeqProcs :
        /\ Ended(p) /\ proc[p].exc = "OSError"
        /\ proc[p].idx = 1
        /\ prevLen[p] > Len(files[Target(p)])
        /\ files[Target(p)] = LineOf(Links(p)[1])

\* C4 (as claimed): a call given an empty or no output path writes its links
\* to YTplaylist_links.txt, from main's prompt and from a direct call alike.
C4_EmptyMeansDefault ==
    \A p \in SeqProcs :
        (Ended(p) /\ proc[p].given \in {<<>>, <<EmptyPath>>}
                  /\ proc[p].exc \notin EnvFaults) =>
            /\ proc[p].exc = ""
            /\ Target(p) = DefaultPath
            /\ DefaultPath \in DOMAIN files
            /\ files[DefaultPath] = Render(Links(p))

\* C7 (as claimed): a run of the program ends with exit status 0 after
\* exactly one outcome message, the success message carrying the value
\* returned and the number of lines written.
C7_OneMessage ==
    \A p \in SeqProcs :
        (proc[p].caller = "main" /\ proc[p].pc \in {"exit0", "traceback"}) =>
            /\ proc[p].pc = "exit0"
            /\ Len(proc[p].stdout) = 1
            /\ proc[p].stdout[1].kind = "Successfully extracted" =>
                   /\ proc[p].ret = <<proc[p].stdout[1].n>>
                   /\ proc[p].idx = proc[p].stdout[1].n

\* C9 (as claimed): the list is resolved (or resolution has failed) before
\* the file is opened, the file is opened before a line is written, and the
\* count is returned after the file is closed.
C9_ResolveFirst ==
    \A p \in SeqProcs :
        /\ proc[p].f # "none" =>
               (proc[p].video_urls # <<>> \/ proc[p].exc = "ResolveError")
        /\ proc[p].idx > 0 => proc[p].f # "none"
        /\ (proc[p].ret # <<>> /\ proc[p].exc = "") => proc[p].f = "closed"

\* C8 (as claimed): when two exports of different lists to the same path have
\* both ended without failure, the file holds the complete list of one of them.
C8_OneWholeList ==
    (/\ \A p \in Procs : Ended(p) /\ proc[p].exc = ""
     /\ Links(1) # Links(2)
     /\ Target(1) = Target(2)) =>
        files[Target(1)] \in {Render(Links(1)), Render(Links(2))}

\* C8 (amended): an export that opened the file when no other export held it
\* open, and after whose open no other export opened it, leaves exactly its
\* own list in the file.
C8_NonOverlapping ==
    \A p \in Procs :
        (Ended(p) /\ proc[p].exc = "" /\ ~interfered[p]) =>
            files[Target(p)] = Render(Links(p))

\* both exports succeeded one after the other, the later with the shorter list
C8_Witness ==
    /\ \A p \in Procs : Ended(p) /\ proc[p].exc = ""
    /\ interfered[1] /\ ~interfered[2]
    /\ Len(Links(2)) < Len(Links(1))
    /\ Links(2) # <<>>
    /\ files[Target(2)] = Render(Links(2))

====
